---- MODULE Spec2Model ----
(***************************************************************************)
(* Console Tic-Tac-Toe (src/main.cpp): GameBoard, GameRepository,          *)
(* GameService, GameController and the turn loop of GamePresentation.      *)
(*                                                                         *)
(* Spec     is the program main() runs: one StartGame() on a fresh         *)
(*          presentation, driven by whatever the console delivers.         *)
(* SpecReplay is Spec with StartGame() called again after a game ended.    *)
(* SpecApi  is a client of the service or the repository: one call on a    *)
(*          repository holding any board (every 3x3 board over ' ', 'X',   *)
(*          'O' is reachable through MakeMove, which takes any mark at any *)
(*          time).                                                         *)
(* SpecController is a client of GameController, from the same states.     *)
(***************************************************************************)
EXTENDS Integers, FiniteSets, Sequences, TLC

SIZE == 3          \* GameBoard::SIZE
MaxIn == 3         \* largest integer the console delivers at a prompt

Empty == " "
Players == {"X", "O"}
Marks == {Empty} \cup Players
Idx == 0..(SIZE - 1)
Inputs == (0 - 1)..MaxIn

WinsText(p) == "Player " \o p \o " wins!"
DrawText == "It's a draw!"

VARIABLES
    board,          \* GameRepository::_board.board
    currentPlayer,  \* GamePresentation::_currentPlayer
    pc,             \* where the client / the turn loop stands
    row, col,       \* GetPlayerMove's int locals: the set of values each may hold
    cinFail,        \* std::cin's failbit
    announced,      \* the outcome line printed by the running StartGame(), "" while none
    switches,       \* number of SwitchPlayer() calls of the running StartGame()
    call            \* the last call made on the service, with its result

vars == <<board, currentPlayer, pc, row, col, cinFail, announced, switches, call>>

----------------------------------------------------------------------------
(* GameBoard *)

GameBoard == [i \in Idx |-> [j \in Idx |-> Empty]]

AllBoards == [Idx -> [Idx -> Marks]]

IsFullFirstRowOnly(b) == \A j \in Idx : b[0][j] # Empty

IsFull(b) == \A i \in Idx : \A j \in Idx : b[i][j] # Empty

IsWinnerBadDiagonal(b, player) ==
    \/ \E i \in Idx :
          \/ b[i][0] = player /\ b[i][1] = player /\ b[i][2] = player
          \/ b[0][i] = player /\ b[1][i] = player /\ b[2][i] = player
    \/ b[0][0] = player /\ b[1][1] = player /\ b[2][2] = player
    \/ b[0][2] = player /\ b[1][1] = player /\ b[2][2] = player

IsWinner(b, player) ==
    \/ \E i \in Idx :
          \/ b[i][0] = player /\ b[i][1] = player /\ b[i][2] = player
          \/ b[0][i] = player /\ b[1][i] = player /\ b[2][i] = player
    \/ b[0][0] = player /\ b[1][1] = player /\ b[2][2] = player
    \/ b[0][2] = player /\ b[1][1] = player /\ b[2][0] = player

----------------------------------------------------------------------------
(* GameRepository: each operator takes the repository's board. *)

SaveMoveIfEmpty(b, r, c, player) ==
    IF b[r][c] = Empty THEN [b EXCEPT ![r][c] = player] ELSE b

SaveMoveTransposed(b, r, c, player) == [b EXCEPT ![c][r] = player]

SaveMove(b, r, c, player) == [b EXCEPT ![r][c] = player]

RepositoryGetBoardFresh(b) == GameBoard

RepositoryGetBoard(b) == b

ResetBoardFirstRowOnly(b) == [b EXCEPT ![0] = [j \in Idx |-> Empty]]

ResetBoard(b) == GameBoard

----------------------------------------------------------------------------
(* GameService: MakeMove yields the return value and the repository's board. *)

MakeMoveNoOccupiedCheck(b, r, c, player) ==
    IF r < 0 \/ r >= SIZE \/ c < 0 \/ c >= SIZE
    THEN [ret |-> FALSE, board |-> b]
    ELSE [ret |-> TRUE, board |-> SaveMove(b, r, c, player)]

MakeMove(b, r, c, player) ==
    IF r < 0 \/ r >= SIZE \/ c < 0 \/ c >= SIZE
    THEN [ret |-> FALSE, board |-> b]
    ELSE IF RepositoryGetBoard(b)[r][c] # Empty
         THEN [ret |-> FALSE, board |-> b]
         ELSE [ret |-> TRUE, board |-> SaveMove(b, r, c, player)]

CheckWinner(b, player) == IsWinner(RepositoryGetBoard(b), player)

IsBoardFull(b) == IsFull(RepositoryGetBoard(b))

ResetGame(b) == ResetBoard(b)

GetBoard(b) == RepositoryGetBoard(b)

----------------------------------------------------------------------------
(* GameController *)

ControllerMakeMoveSwapped(b, r, c, player) == MakeMove(b, c, r, player)

ControllerMakeMove(b, r, c, player) == MakeMove(b, r, c, player)

ControllerCheckWinner(b, player) == CheckWinner(b, player)

ControllerIsBoardFull(b) == IsBoardFull(b)

ControllerResetGame(b) == ResetGame(b)

ControllerGetBoard(b) == GetBoard(b)

----------------------------------------------------------------------------
(* The record of a service call. *)

Call(op, r, c, player, ret, before) ==
    [op |-> op, row |-> r, col |-> c, player |-> player, ret |-> ret,
     before |-> before]

NoCall == Call("none", 0, 0, Empty, FALSE, GameBoard)

----------------------------------------------------------------------------
(* GamePresentation and main().  DisplayBoard() only prints a copy of the   *)
(* board (GetBoard) and is not recorded in call.                            *)

Init ==
    /\ board = GameBoard
    /\ currentPlayer = "X"
    /\ pc = "main"
    /\ row = Inputs
    /\ col = Inputs
    /\ cinFail = FALSE
    /\ announced = ""
    /\ switches = 0
    /\ call = NoCall

SwitchPlayerStuck(p) == IF p = "X" THEN "X" ELSE "O"

SwitchPlayer(p) == IF p = "X" THEN "O" ELSE "X"

(* What the console holds for one prompt: two integers, a first token that  *)
(* is no integer (or end of input), or an integer and then such a token.    *)
(* Once failbit is set the stream is not read any more.                     *)
ConsoleInput(fail) ==
    IF fail THEN {[kind |-> "none", r |-> 0, c |-> 0]}
    ELSE [kind : {"ints"}, r : Inputs, c : Inputs]
            \cup [kind : {"badRow"}, r : {0}, c : {0}]
            \cup [kind : {"badCol"}, r : Inputs, c : {0}]

(* std::cin >> row >> col.  A failed extraction stores 0 and sets failbit;  *)
(* with failbit set nothing is extracted and the operands keep their value. *)
ReadInts(rw, cl, fail, in) ==
    IF fail THEN [row |-> rw, col |-> cl, fail |-> TRUE]
    ELSE IF in.kind = "ints" THEN [row |-> {in.r}, col |-> {in.c}, fail |-> FALSE]
    ELSE IF in.kind = "badRow" THEN [row |-> {0}, col |-> cl, fail |-> TRUE]
    ELSE [row |-> {in.r}, col |-> {0}, fail |-> TRUE]

(* StartGame() up to the turn loop. *)
StartGame ==
    /\ pc = "main"
    /\ board' = ControllerResetGame(board)
    /\ call' = Call("ResetGame", 0, 0, Empty, FALSE, board)
    /\ pc' = "AwaitMove"
    /\ UNCHANGED <<currentPlayer, row, col, cinFail, announced, switches>>

(* One pass of GetPlayerMove()'s loop, breaking out of it anyway. *)
GetPlayerMoveNoRetry ==
    /\ pc = "AwaitMove"
    /\ \E in \in ConsoleInput(cinFail) :
          LET rd == ReadInts(row, col, cinFail, in) IN
          \E r \in rd.row, c \in rd.col :
             LET m == ControllerMakeMove(board, r, c, currentPlayer) IN
             /\ board' = m.board
             /\ cinFail' = rd.fail
             /\ call' = Call("MakeMove", r, c, currentPlayer, m.ret, board)
             /\ pc' = "CheckEnd" /\ row' = Inputs /\ col' = Inputs
    /\ UNCHANGED <<currentPlayer, announced, switches>>

(* One pass of GetPlayerMove()'s loop: prompt, read, MakeMove, break or retry. *)
(* An int local that was never written holds any value.                        *)
GetPlayerMove ==
    /\ pc = "AwaitMove"
    /\ \E in \in ConsoleInput(cinFail) :
          LET rd == ReadInts(row, col, cinFail, in) IN
          \E r \in rd.row, c \in rd.col :
             LET m == ControllerMakeMove(board, r, c, currentPlayer) IN
             /\ board' = m.board
             /\ cinFail' = rd.fail
             /\ call' = Call("MakeMove", r, c, currentPlayer, m.ret, board)
             /\ IF m.ret
                THEN pc' = "CheckEnd" /\ row' = Inputs /\ col' = Inputs
                ELSE pc' = "AwaitMove" /\ row' = {r} /\ col' = {c}
    /\ UNCHANGED <<currentPlayer, announced, switches>>

(* The rest of the loop body, with the draw tested before the win. *)
CheckEndDrawFirst ==
    /\ pc = "CheckEnd"
    /\ IF ControllerIsBoardFull(board)
       THEN /\ announced' = DrawText
            /\ pc' = "GameOver"
            /\ call' = Call("IsBoardFull", 0, 0, Empty, TRUE, board)
            /\ UNCHANGED <<currentPlayer, switches>>
       ELSE IF ControllerCheckWinner(board, currentPlayer)
       THEN /\ announced' = WinsText(currentPlayer)
            /\ pc' = "GameOver"
            /\ call' = Call("CheckWinner", 0, 0, currentPlayer, TRUE, board)
            /\ UNCHANGED <<currentPlayer, switches>>
       ELSE /\ currentPlayer' = SwitchPlayer(currentPlayer)
            /\ switches' = switches + 1
            /\ pc' = "AwaitMove"
            /\ call' = Call("IsBoardFull", 0, 0, Empty, FALSE, board)
            /\ UNCHANGED announced
    /\ UNCHANGED <<board, row, col, cinFail>>

(* The rest of the loop body, testing the win of the player who did not move. *)
CheckEndOtherPlayer ==
    /\ pc = "CheckEnd"
    /\ IF ControllerCheckWinner(board, SwitchPlayer(currentPlayer))
       THEN /\ announced' = WinsText(SwitchPlayer(currentPlayer))
            /\ pc' = "GameOver"
            /\ call' = Call("CheckWinner", 0, 0, SwitchPlayer(currentPlayer), TRUE, board)
            /\ UNCHANGED <<currentPlayer, switches>>
       ELSE IF ControllerIsBoardFull(board)
       THEN /\ announced' = DrawText
            /\ pc' = "GameOver"
            /\ call' = Call("IsBoardFull", 0, 0, Empty, TRUE, board)
            /\ UNCHANGED <<currentPlayer, switches>>
       ELSE /\ currentPlayer' = SwitchPlayer(currentPlayer)
            /\ switches' = switches + 1
            /\ pc' = "AwaitMove"
            /\ call' = Call("IsBoardFull", 0, 0, Empty, FALSE, board)
            /\ UNCHANGED announced
    /\ UNCHANGED <<board, row, col, cinFail>>

(* The rest of the loop body, announcing a win without leaving the loop. *)
CheckEndNoBreak ==
    /\ pc = "CheckEnd"
    /\ IF ControllerCheckWinner(board, currentPlayer)
       THEN /\ announced' = WinsText(currentPlayer)
            /\ currentPlayer' = SwitchPlayer(currentPlayer)
            /\ switches' = switches + 1
            /\ pc' = "AwaitMove"
            /\ call' = Call("CheckWinner", 0, 0, currentPlayer, TRUE, board)
       ELSE IF ControllerIsBoardFull(board)
       THEN /\ announced' = DrawText
            /\ pc' = "GameOver"
            /\ call' = Call("IsBoardFull", 0, 0, Empty, TRUE, board)
            /\ UNCHANGED <<currentPlayer, switches>>
       ELSE /\ currentPlayer' = SwitchPlayer(currentPlayer)
            /\ switches' = switches + 1
            /\ pc' = "AwaitMove"
            /\ call' = Call("IsBoardFull", 0, 0, Empty, FALSE, board)
            /\ UNCHANGED announced
    /\ UNCHANGED <<board, row, col, cinFail>>

(* The rest of the loop body after GetPlayerMove() returned: the win test,  *)
(* the draw test, SwitchPlayer() and back to the prompt.                    *)
CheckEnd ==
    /\ pc = "CheckEnd"
    /\ IF ControllerCheckWinner(board, currentPlayer)
       THEN /\ announced' = WinsText(currentPlayer)
            /\ pc' = "GameOver"
            /\ call' = Call("CheckWinner", 0, 0, currentPlayer, TRUE, board)
            /\ UNCHANGED <<currentPlayer, switches>>
       ELSE IF ControllerIsBoardFull(board)
       THEN /\ announced' = DrawText
            /\ pc' = "GameOver"
            /\ call' = Call("IsBoardFull", 0, 0, Empty, TRUE, board)
            /\ UNCHANGED <<currentPlayer, switches>>
       ELSE /\ currentPlayer' = SwitchPlayer(currentPlayer)
            /\ switches' = switches + 1
            /\ pc' = "AwaitMove"
            /\ call' = Call("IsBoardFull", 0, 0, Empty, FALSE, board)
            /\ UNCHANGED announced
    /\ UNCHANGED <<board, row, col, cinFail>>

(* StartGame() returns after the break and main() returns 0. *)
Exit ==
    /\ pc = "GameOver"
    /\ pc' = "exit"
    /\ UNCHANGED <<board, currentPlayer, row, col, cinFail, announced, switches, call>>

Next == StartGame \/ GetPlayerMove \/ CheckEnd \/ Exit

Spec == Init /\ [][Next]_vars

----------------------------------------------------------------------------
(* The program as it runs: every step that does not wait for the console    *)
(* is eventually taken.  Nothing is assumed of the console.                 *)
SpecLive ==
    /\ Init
    /\ [][Next]_vars
    /\ WF_vars(StartGame)
    /\ WF_vars(CheckEnd)
    /\ WF_vars(Exit)

----------------------------------------------------------------------------
(* A holder of the GamePresentation that calls StartGame() again after a    *)
(* game has ended.  announced and switches then refer to the running call.  *)

StartGameAgain ==
    /\ pc = "GameOver"
    /\ board' = ControllerResetGame(board)
    /\ call' = Call("ResetGame", 0, 0, Empty, FALSE, board)
    /\ pc' = "AwaitMove"
    /\ announced' = ""
    /\ switches' = 0
    /\ UNCHANGED <<currentPlayer, row, col, cinFail>>

NextReplay == StartGame \/ GetPlayerMove \/ CheckEnd \/ StartGameAgain \/ Exit

SpecReplay == Init /\ [][NextReplay]_vars

----------------------------------------------------------------------------
(* A client of IGameService or IGameRepository making one call on a        *)
(* repository in any state.                                                *)

InitApi ==
    /\ board \in AllBoards
    /\ currentPlayer = "X"
    /\ pc = "api"
    /\ row = Inputs
    /\ col = Inputs
    /\ cinFail = FALSE
    /\ announced = ""
    /\ switches = 0
    /\ call = NoCall

ApiMakeMove ==
    /\ pc = "api"
    /\ \E r \in Inputs, c \in Inputs, player \in Players :
          LET m == MakeMove(board, r, c, player) IN
          /\ board' = m.board
          /\ call' = Call("MakeMove", r, c, player, m.ret, board)
    /\ pc' = "returned"
    /\ UNCHANGED <<currentPlayer, row, col, cinFail, announced, switches>>

ApiCheckWinner ==
    /\ pc = "api"
    /\ \E player \in Players :
          call' = Call("CheckWinner", 0, 0, player, CheckWinner(board, player), board)
    /\ pc' = "returned"
    /\ UNCHANGED <<board, currentPlayer, row, col, cinFail, announced, switches>>

ApiIsBoardFull ==
    /\ pc = "api"
    /\ call' = Call("IsBoardFull", 0, 0, Empty, IsBoardFull(board), board)
    /\ pc' = "returned"
    /\ UNCHANGED <<board, currentPlayer, row, col, cinFail, announced, switches>>

ApiResetGame ==
    /\ pc = "api"
    /\ board' = ResetGame(board)
    /\ call' = Call("ResetGame", 0, 0, Empty, FALSE, board)
    /\ pc' = "returned"
    /\ UNCHANGED <<currentPlayer, row, col, cinFail, announced, switches>>

(* A client of IGameRepository writing a cell directly.  SaveMove indexes   *)
(* the vectors unchecked, so only in-range indices have a defined effect.   *)
ApiSaveMove ==
    /\ pc = "api"
    /\ \E r \in Idx, c \in Idx, player \in Players :
          /\ board' = SaveMove(board, r, c, player)
          /\ call' = Call("SaveMove", r, c, player, FALSE, board)
    /\ pc' = "returned"
    /\ UNCHANGED <<currentPlayer, row, col, cinFail, announced, switches>>

(* GetBoard returns a copy of the board: the call's ret is that copy. *)
ApiGetBoard ==
    /\ pc = "api"
    /\ call' = Call("GetBoard", 0, 0, Empty, GetBoard(board), board)
    /\ pc' = "returned"
    /\ UNCHANGED <<board, currentPlayer, row, col, cinFail, announced, switches>>

NextApi ==
    \/ ApiMakeMove
    \/ ApiCheckWinner
    \/ ApiIsBoardFull
    \/ ApiResetGame
    \/ ApiGetBoard
    \/ ApiSaveMove

SpecApi == InitApi /\ [][NextApi]_vars

----------------------------------------------------------------------------
(* A client of GameController making one call on a repository in any state. *)

ApiControllerMakeMove ==
    /\ pc = "api"
    /\ \E r \in Inputs, c \in Inputs, player \in Players :
          LET m == ControllerMakeMove(board, r, c, player) IN
          /\ board' = m.board
          /\ call' = Call("Controller.MakeMove", r, c, player, m.ret, board)
    /\ pc' = "returned"
    /\ UNCHANGED <<currentPlayer, row, col, cinFail, announced, switches>>

ApiControllerCheckWinner ==
    /\ pc = "api"
    /\ \E player \in Players :
          call' = Call("Controller.CheckWinner", 0, 0, player,
                       ControllerCheckWinner(board, player), board)
    /\ pc' = "returned"
    /\ UNCHANGED <<board, currentPlayer, row, col, cinFail, announced, switches>>

ApiControllerIsBoardFull ==
    /\ pc = "api"
    /\ call' = Call("Controller.IsBoardFull", 0, 0, Empty, ControllerIsBoardFull(board), board)
    /\ pc' = "returned"
    /\ UNCHANGED <<board, currentPlayer, row, col, cinFail, announced, switches>>

ApiControllerResetGame ==
    /\ pc = "api"
    /\ board' = ControllerResetGame(board)
    /\ call' = Call("Controller.ResetGame", 0, 0, Empty, FALSE, board)
    /\ pc' = "returned"
    /\ UNCHANGED <<currentPlayer, row, col, cinFail, announced, switches>>

(* GetBoard returns a copy of the board: the call's ret is that copy. *)
ApiControllerGetBoard ==
    /\ pc = "api"
    /\ call' = Call("Controller.GetBoard", 0, 0, Empty, ControllerGetBoard(board), board)
    /\ pc' = "returned"
    /\ UNCHANGED <<board, currentPlayer, row, col, cinFail, announced, switches>>

NextController ==
    \/ ApiControllerMakeMove
    \/ ApiControllerCheckWinner
    \/ ApiControllerIsBoardFull
    \/ ApiControllerResetGame
    \/ ApiControllerGetBoard

SpecController == InitApi /\ [][NextController]_vars

----------------------------------------------------------------------------
(* Vocabulary of the properties, stated without the program's operators. *)

Cells == Idx \X Idx

At(b, cell) == b[cell[1]][cell[2]]

Occupied(b) == Cardinality({cell \in Cells : At(b, cell) # Empty})

Lines ==
    { {<<0, 0>>, <<0, 1>>, <<0, 2>>},
      {<<1, 0>>, <<1, 1>>, <<1, 2>>},
      {<<2, 0>>, <<2, 1>>, <<2, 2>>},
      {<<0, 0>>, <<1, 0>>, <<2, 0>>},
      {<<0, 1>>, <<1, 1>>, <<2, 1>>},
      {<<0, 2>>, <<1, 2>>, <<2, 2>>},
      {<<0, 0>>, <<1, 1>>, <<2, 2>>},
      {<<0, 2>>, <<1, 1>>, <<2, 0>>} }

HasLine(b, p) == \E line \in Lines : \A cell \in line : At(b, cell) = p

(* The arguments a MakeMove call must reject on board b. *)
Rejectable(b, r, c) == r \notin Idx \/ c \notin Idx \/ b[r][c] # Empty

----------------------------------------------------------------------------
(* C1: MakeMove with a row outside [0,3), a column outside [0,3) or an     *)
(* occupied target cell returns false and leaves all 9 cells as they were. *)
C1_RejectedMoveKeepsBoard ==
    [][(call'.op = "MakeMove" /\ Rejectable(board, call'.row, call'.col))
          => (call'.ret = FALSE /\ board' = board)]_vars

(* Scenario C: a second player's move on an occupied cell has been rejected. *)
C1_Witness ==
    /\ call.op = "MakeMove"
    /\ call.ret = FALSE
    /\ call.row \in Idx /\ call.col \in Idx
    /\ board[call.row][call.col] \in Players \ {call.player}
    /\ board = call.before

(* C2: MakeMove with in-range indices on an Empty cell returns true, turns *)
(* that cell from Empty into the player's mark and leaves the other 8      *)
(* cells unchanged, so exactly one more cell is occupied.                  *)
C2_AcceptedMoveSetsOneCell ==
    [][(call'.op = "MakeMove" /\ ~Rejectable(board, call'.row, call'.col))
          => /\ call'.ret = TRUE
             /\ board[call'.row][call'.col] = Empty
             /\ board'[call'.row][call'.col] = call'.player
             /\ \A cell \in Cells \ {<<call'.row, call'.col>>} :
                   At(board', cell) = At(board, cell)
             /\ Occupied(board') = Occupied(board) + 1]_vars

(* An O has been placed off the diagonal on a board that held marks already. *)
C2_Witness ==
    /\ call.op = "MakeMove"
    /\ call.ret = TRUE
    /\ call.row = 1 /\ call.col = 2 /\ call.player = "O"
    /\ board[1][2] = "O"
    /\ Occupied(board) = 5

(* C3: IsWinner(p) and CheckWinner(p) are true exactly when one of the 8   *)
(* lines (3 rows, 3 columns, 2 diagonals) holds p in all three cells.      *)
C3_WinnerIffLine ==
    /\ \A p \in Players : IsWinner(board, p) <=> HasLine(board, p)
    /\ call.op = "CheckWinner" => (call.ret <=> HasLine(board, call.player))

(* CheckWinner answered true for a board whose only line is the anti-diagonal. *)
C3_Witness ==
    /\ call.op = "CheckWinner"
    /\ call.ret = TRUE
    /\ \A line \in Lines :
          (\A cell \in line : At(board, cell) = call.player)
             <=> line = {<<0, 2>>, <<1, 1>>, <<2, 0>>}

(* C4: IsFull() and IsBoardFull() are true exactly when none of the 9      *)
(* cells is Empty.                                                         *)
C4_FullIffNoEmptyCell ==
    /\ IsFull(board) <=> Occupied(board) = SIZE * SIZE
    /\ call.op = "IsBoardFull" => (call.ret <=> Occupied(board) = SIZE * SIZE)

(* IsBoardFull answered false for a board whose only Empty cell is the last. *)
C4_Witness ==
    /\ call.op = "IsBoardFull"
    /\ call.ret = FALSE
    /\ Occupied(board) = SIZE * SIZE - 1
    /\ board[2][2] = Empty

(* C5: after ResetGame(), whatever the board was, all 9 cells are Empty,   *)
(* IsBoardFull() is false and CheckWinner(p) is false for X and for O.     *)
C5_ResetEmptiesBoard ==
    call.op = "ResetGame"
       => /\ \A cell \in Cells : At(board, cell) = Empty
          /\ ~IsBoardFull(board)
          /\ \A p \in Players : ~CheckWinner(board, p)

(* ResetGame has run on a full board that held a complete line of X. *)
C5_Witness ==
    /\ call.op = "ResetGame"
    /\ Occupied(call.before) = SIZE * SIZE
    /\ HasLine(call.before, "X")
    /\ board = GameBoard

----------------------------------------------------------------------------
(* The turn loop.  The k-th mark of a game goes with Mark(k). *)

Mark(k) == IF k % 2 = 1 THEN "X" ELSE "O"

Over == {"GameOver", "exit"}

(* C6: accepted moves alternate strictly starting with X (the k-th one is  *)
(* made with X for odd k, with O for even k), and the current player is    *)
(* toggled exactly once after each accepted move that does not end the     *)
(* game.                                                                   *)
C6_TurnsAlternate ==
    /\ [][Occupied(board') # Occupied(board)
             => /\ Occupied(board') = Occupied(board) + 1
                /\ call'.op = "MakeMove" /\ call'.ret = TRUE
                /\ call'.player = Mark(Occupied(board'))
                /\ board[call'.row][call'.col] = Empty
                /\ board'[call'.row][call'.col] = Mark(Occupied(board'))]_vars
    /\ [][currentPlayer' # currentPlayer \/ switches' # switches
             => /\ pc = "CheckEnd" /\ pc' = "AwaitMove"
                /\ announced' = ""
                /\ currentPlayer' \in Players \ {currentPlayer}
                /\ switches' = switches + 1]_vars
    /\ [](pc = "AwaitMove"
             => switches = Occupied(board) /\ currentPlayer = Mark(Occupied(board) + 1))
    /\ [](pc \in {"CheckEnd"} \cup Over
             => switches = Occupied(board) - 1 /\ currentPlayer = Mark(Occupied(board)))

(* O has just made the 4th accepted move of the game. *)
C6_Witness ==
    /\ pc = "CheckEnd"
    /\ call.op = "MakeMove" /\ call.ret = TRUE /\ call.player = "O"
    /\ Occupied(board) = 4
    /\ switches = 3

(* C7: after every accepted move by the current player p the win is tested *)
(* before the draw: a complete line of p ends the game with "Player p      *)
(* wins!", also on the 9th cell; otherwise a full board ends it as a draw; *)
(* otherwise the turn passes.  A win is announced only for the player who  *)
(* made the last accepted move.                                            *)
C7_WinBeforeDraw ==
    /\ [](pc = "CheckEnd"
             => call.op = "MakeMove" /\ call.ret = TRUE /\ call.player = currentPlayer)
    /\ [][pc = "CheckEnd"
             => IF HasLine(board, currentPlayer)
                THEN /\ pc' = "GameOver"
                     /\ announced' = WinsText(currentPlayer)
                     /\ currentPlayer' = currentPlayer
                ELSE IF Occupied(board) = SIZE * SIZE
                THEN /\ pc' = "GameOver"
                     /\ announced' = DrawText
                     /\ currentPlayer' = currentPlayer
                ELSE /\ pc' = "AwaitMove"
                     /\ announced' = ""
                     /\ currentPlayer' \in Players \ {currentPlayer}]_vars
    /\ [](\A p \in Players :
             announced = WinsText(p)
                => p = currentPlayer /\ HasLine(board, p) /\ p = Mark(Occupied(board)))

(* X has won with the move that filled the 9th cell. *)
C7_Witness ==
    /\ announced = WinsText("X")
    /\ Occupied(board) = SIZE * SIZE
    /\ pc = "GameOver"

(* C8: whenever the loop ends a game as a draw, the board is full and      *)
(* CheckWinner is false for X and for O.                                   *)
C8_DrawHasNoLine ==
    announced = DrawText
       => /\ Occupied(board) = SIZE * SIZE
          /\ IsBoardFull(board)
          /\ \A p \in Players : ~HasLine(board, p) /\ ~CheckWinner(board, p)

(* Scenario B: nine accepted moves, then "It's a draw!". *)
C8_Witness ==
    /\ announced = DrawText
    /\ pc = "GameOver"
    /\ call.op = "IsBoardFull" /\ call.ret = TRUE

(* C9: GameOver is terminal: once a win or a draw is announced no move is  *)
(* requested or accepted and the board and the current player never change *)
(* again; the loop exits only where the last mover has a complete line or  *)
(* the board is full.                                                      *)
C9_GameOverTerminal ==
    /\ [](announced # "" <=> pc \in Over)
    /\ [](pc \in Over => HasLine(board, currentPlayer) \/ Occupied(board) = SIZE * SIZE)
    /\ [][announced # ""
             => /\ board' = board
                /\ currentPlayer' = currentPlayer
                /\ announced' = announced
                /\ call' = call
                /\ pc' \in Over]_vars

(* The process has ended after announcing a win of O. *)
C9_Witness ==
    /\ pc = "exit"
    /\ announced = WinsText("O")
    /\ Occupied(board) < SIZE * SIZE

(* C10: a move the service rejects (indices out of range or cell occupied) *)
(* is not fatal: the board is unchanged, the turn is not switched, the     *)
(* win and draw tests are not run and the same player is prompted again;   *)
(* the loop leaves AwaitMove only after an accepted move.                  *)
C10_RejectedMoveRetries ==
    /\ [][pc = "AwaitMove" /\ call'.op = "MakeMove"
             => /\ call'.player = currentPlayer
                /\ call'.ret = ~Rejectable(board, call'.row, call'.col)]_vars
    /\ [][pc = "AwaitMove" /\ call'.op = "MakeMove" /\ call'.ret = FALSE
             => /\ board' = board
                /\ currentPlayer' = currentPlayer
                /\ switches' = switches
                /\ announced' = announced
                /\ pc' = "AwaitMove"]_vars
    /\ [][pc = "AwaitMove" /\ pc' # "AwaitMove"
             => /\ pc' = "CheckEnd"
                /\ call'.op = "MakeMove" /\ call'.ret = TRUE
                /\ Occupied(board') = Occupied(board) + 1]_vars

(* O's move on an occupied cell has been rejected and O is at the prompt again. *)
C10_Witness ==
    /\ pc = "AwaitMove"
    /\ call.op = "MakeMove" /\ call.ret = FALSE
    /\ call.row \in Idx /\ call.col \in Idx
    /\ board[call.row][call.col] # Empty
    /\ currentPlayer = "O"
    /\ cinFail = FALSE

----------------------------------------------------------------------------
(* C11: console input that is no number is treated as an invalid move: it  *)
(* never places a mark (the board and the current player are unchanged)    *)
(* and the player is prompted again.                                       *)
C11_NonNumericInputPlacesNoMark ==
    [][(pc = "AwaitMove" /\ cinFail = FALSE /\ cinFail' = TRUE)
          => (board' = board /\ currentPlayer' = currentPlayer /\ pc' = "AwaitMove")]_vars

(* C12: every game begun by StartGame() starts at the prompt with an empty *)
(* board and current player X, whatever state the presentation and the     *)
(* repository were in, a StartGame() after a finished game included.       *)
C12_EveryGameStartsWithX ==
    (pc = "AwaitMove" /\ call.op = "ResetGame")
       => (board = GameBoard /\ currentPlayer = "X")

(* C13: in every state of a game each of the 9 cells is Empty, X or O, and *)
(* a marked cell is never overwritten or cleared for the rest of that      *)
(* game: until the reset, cells only change from Empty to a mark.          *)
C13_MarkedCellsStay ==
    /\ [](board \in AllBoards)
    /\ [][call'.op # "ResetGame"
             => \A cell \in Cells :
                   At(board', cell) # At(board, cell)
                      => At(board, cell) = Empty /\ At(board', cell) \in Players]_vars

(* With 8 cells marked, a move onto the other player's mark has been rejected. *)
C13_Witness ==
    /\ pc = "AwaitMove"
    /\ call.op = "MakeMove" /\ call.ret = FALSE
    /\ call.row \in Idx /\ call.col \in Idx
    /\ board[call.row][call.col] \in Players \ {call.player}
    /\ Occupied(board) = SIZE * SIZE - 1

(* C14: SaveMove(row, col, player) validates nothing: for in-range indices *)
(* it writes player into cell (row,col) whatever the cell held, an         *)
(* occupied cell included, and leaves the other 8 cells unchanged; for the *)
(* same arguments on an occupied cell MakeMove refuses.                    *)
C14_SaveMoveOverwrites ==
    [][call'.op = "SaveMove"
          => /\ board'[call'.row][call'.col] = call'.player
             /\ \A cell \in Cells \ {<<call'.row, call'.col>>} :
                   At(board', cell) = At(board, cell)
             /\ board[call'.row][call'.col] # Empty
                   => ~MakeMove(board, call'.row, call'.col, call'.player).ret]_vars

(* SaveMove has replaced the other player's mark. *)
C14_Witness ==
    /\ call.op = "SaveMove"
    /\ call.before[call.row][call.col] \in Players \ {call.player}
    /\ board[call.row][call.col] = call.player

(* C15: the Controller is a pure pass-through: MakeMove, CheckWinner,      *)
(* IsBoardFull, ResetGame and GetBoard issued through the Controller       *)
(* return what the same call on the Service returns and leave the board    *)
(* the Service would leave.  The board is the only state either layer      *)
(* reaches, so call by call from every board covers every sequence.        *)
C15_ControllerPassThrough ==
    [][/\ call'.op = "Controller.MakeMove"
            => LET m == MakeMove(board, call'.row, call'.col, call'.player) IN
               call'.ret = m.ret /\ board' = m.board
       /\ call'.op = "Controller.CheckWinner"
            => call'.ret = CheckWinner(board, call'.player) /\ board' = board
       /\ call'.op = "Controller.IsBoardFull"
            => call'.ret = IsBoardFull(board) /\ board' = board
       /\ call'.op = "Controller.ResetGame"
            => board' = ResetGame(board)
       /\ call'.op = "Controller.GetBoard"
            => call'.ret = GetBoard(board) /\ board' = board]_vars

(* The Controller has placed an O off the diagonal on a board with marks. *)
C15_Witness ==
    /\ call.op = "Controller.MakeMove"
    /\ call.ret = TRUE
    /\ call.row = 0 /\ call.col = 2 /\ call.player = "O"
    /\ board[0][2] = "O" /\ board[2][0] = "X"

(* C16: CheckWinner(p), IsBoardFull() and GetBoard() only read: they leave *)
(* all 9 cells and the current player unchanged, and what they report is   *)
(* determined by the current board alone.                                  *)
C16_QueriesReadOnly ==
    [][call'.op \in {"CheckWinner", "IsBoardFull", "GetBoard"}
          => /\ board' = board
             /\ currentPlayer' = currentPlayer
             /\ call'.op = "CheckWinner" => (call'.ret <=> HasLine(board, call'.player))
             /\ call'.op = "IsBoardFull" => (call'.ret <=> Occupied(board) = SIZE * SIZE)
             /\ call'.op = "GetBoard" => call'.ret = board]_vars

(* GetBoard has returned a full board holding a line of X. *)
C16_Witness ==
    /\ call.op = "GetBoard"
    /\ call.ret = board
    /\ Occupied(board) = SIZE * SIZE
    /\ HasLine(board, "X")

----------------------------------------------------------------------------
Count(b, p) == Cardinality({cell \in Cells : At(b, cell) = p})

(* C17: in every state of the game the number of X marks equals the number *)
(* of O marks or exceeds it by exactly one, and the player being prompted  *)
(* is X iff the counts are equal and O iff X is one ahead.                 *)
C17_MarkCounts ==
    LET x == Count(board, "X")
        o == Count(board, "O")
    IN  /\ x = o \/ x = o + 1
        /\ pc = "AwaitMove"
              => /\ currentPlayer = "X" <=> x = o
                 /\ currentPlayer = "O" <=> x = o + 1

(* O is prompted with 4 X and 3 O on the board. *)
C17_Witness ==
    /\ pc = "AwaitMove"
    /\ currentPlayer = "O"
    /\ Count(board, "X") = 4
    /\ Count(board, "O") = 3

(* C18: in every state of the game at most one player has a complete line  *)
(* (IsWinner('X') and IsWinner('O') are never both true), and no move is   *)
(* accepted from a state in which either has one.                          *)
C18_OneWinnerAtMost ==
    /\ [](~(IsWinner(board, "X") /\ IsWinner(board, "O")))
    /\ [](~(HasLine(board, "X") /\ HasLine(board, "O")))
    /\ [][(IsWinner(board, "X") \/ IsWinner(board, "O"))
             => /\ board' = board
                /\ ~(call'.op = "MakeMove" /\ call'.ret = TRUE /\ call' # call)]_vars

(* X completed a line with the 5th mark and the game is over. *)
C18_Witness ==
    /\ IsWinner(board, "X")
    /\ Occupied(board) = 5
    /\ pc = "GameOver"

(* A pass of GetPlayerMove()'s loop whose move is rejected. *)
RejectedMove == GetPlayerMove /\ pc' = "AwaitMove" /\ board' = board

(* Every prompt is eventually answered with a move the service accepts. *)
EveryPromptAnswered == [](pc = "AwaitMove" => <>(pc = "CheckEnd"))

(* C19: a game ends after at most 9 accepted moves and no win comes before *)
(* the 5th; if every prompt is eventually answered with an accepted move   *)
(* the loop eventually reaches GameOver, while at every prompt a rejected  *)
(* move that leads back to the same prompt is possible, so that without    *)
(* the assumption the retry loop can go on forever.                        *)
C19_GameTerminates ==
    /\ [](pc = "AwaitMove" => Occupied(board) < SIZE * SIZE)
    /\ [](\A p \in Players : announced = WinsText(p) => Occupied(board) >= 5)
    /\ [](pc = "AwaitMove" => ENABLED RejectedMove)
    /\ EveryPromptAnswered => <>(pc \in Over)

(* The process has ended in a draw after 9 accepted moves and 8 switches. *)
C19_Witness ==
    /\ pc = "exit"
    /\ announced = DrawText
    /\ Occupied(board) = SIZE * SIZE
    /\ switches = 8

====
